---- MODULE Spec2Model ----
(***************************************************************************)
(* VibeSec backend: the scan orchestrator of app/api/v1/scans.py           *)
(* (trigger_scan, cancel_scan, execute_scan) over the ORM classes of       *)
(* app/models.                                                             *)
(*                                                                         *)
(* Two specifications share every action:                                  *)
(*   Spec        the ORM classes exactly as app/models declares them.      *)
(*               ScanStatus has no CANCELLED member and Finding has no     *)
(*               layman_explanation column, so every evaluation of         *)
(*               ScanStatus.CANCELLED raises AttributeError.               *)
(*   SpecRev002  the same code with the ORM classes in step with alembic   *)
(*               revision 002, which adds both to the database.  It is     *)
(*               the only configuration in which the phases of             *)
(*               execute_scan after the first boundary check can run.      *)
(***************************************************************************)
EXTENDS Integers, Sequences, FiniteSets, TLC

\* ------------------------------------------------------------------ bounds
MaxScans == 2        \* Scan rows the database may hold
MaxFindings == 1     \* findings one runner returns
MaxScored == 3       \* findings in one list handed to the scoring engine
MaxEvents == 2       \* events of one range of an OSV vuln
MaxRanges == 2       \* ranges of one affected entry
MaxAffected == 2     \* affected entries of one vuln
MaxResults == 2      \* entries of "results" in one output of semgrep
MaxStates == 2       \* state tokens github_auth issues
MaxCallbacks == 2    \* requests to /github/callback

\* --------------------------------------------------------------- constants
NULL == "null"
Projects == {1, 2}                       \* the project ids there are
ScanIds == 1..MaxScans

\* models/scan.py: class ScanStatus
ScanStatus ==
    {"pending", "cloning", "detecting", "scanning_sast", "scanning_sca",
     "scoring", "completed", "failed"}

\* models/finding.py: the mapped columns of class Finding
FindingColumns ==
    {"id", "scan_id", "finding_type", "severity", "category", "file_path",
     "line_start", "line_end", "code_snippet", "package_name",
     "package_version", "fixed_version", "title", "description", "cwe_id",
     "cve_id", "owasp_category", "rule_id", "fix_suggestion",
     "fix_explanation", "test_suggestion", "is_fixed", "is_ignored",
     "created_at"}

\* models/finding.py: class Severity
Severity == {"critical", "high", "medium", "low", "info"}

\* models/project.py: class StackType
StackType == {"nextjs", "express", "django", "fastapi", "unknown"}

\* services/scanner/sast.py: the fields of dataclass SASTFinding
SASTFinding ==
    {"rule_id", "title", "description", "severity", "category", "file_path",
     "line_start", "line_end", "code_snippet", "cwe_id", "owasp_category",
     "layman_explanation"}

\* services/scanner/sca.py: the fields of dataclass SCAFinding
SCAFinding ==
    {"package_name", "package_version", "vulnerability_id", "title",
     "description", "severity", "fixed_version", "cve_id", "cwe_id",
     "references"}

\* alembic/versions/002_add_cancelled_status.py: upgrade()
Revision002 ==
    [ScanStatus |-> {"cancelled"}, FindingColumns |-> {"layman_explanation"}]

\* the ORM classes as app/models declares them
ModelsAsDeclared ==
    [ScanStatus |-> ScanStatus, FindingColumns |-> FindingColumns]

\* the ORM classes with what revision 002 adds
ModelsAtRev002 ==
    [ScanStatus |-> ScanStatus \cup Revision002.ScanStatus,
     FindingColumns |-> FindingColumns \cup Revision002.FindingColumns]

\* RunningStatuses with PENDING left out of the list
RunningStatusesNoPending ==
    {"cloning", "detecting", "scanning_sast", "scanning_sca", "scoring"}

\* trigger_scan: the statuses of a "running" scan
RunningStatuses ==
    {"pending", "cloning", "detecting", "scanning_sast", "scanning_sca",
     "scoring"}

\* cancel_scan: terminal_statuses
terminal_statuses == {"completed", "failed", "cancelled"}

\* execute_scan: the status and progress written on entry to phase k
PhaseStatus ==
    <<"cloning", "detecting", "scanning_sast", "scanning_sca", "scoring">>
\* PhaseProgress with the checkpoints of detecting and scanning_sast swapped
PhaseProgressSwapped == <<10, 40, 20, 60, 80>>
PhaseProgress == <<10, 20, 40, 60, 80>>
CompletedProgress == 100
MessageLimit == 500

\* the severities and stacks the environment feeds the runners with
InputSeverities == {"critical", "info"}
DetectedStacks == {"fastapi", "unknown"}
\* lengths of the text of an exception raised by the environment
ExceptionLengths == {40, 600}

VARIABLES
    orm,        \* the ORM classes loaded: [ScanStatus, FindingColumns]
    scans,      \* table scans: sequence of rows, id = index
    findings,   \* table findings: scan id -> sequence of Finding rows
    projects,   \* table projects: id -> [stack, latest_scan_id, latest_score]
    task,       \* scan id -> the execute_scan background task of that scan
    cancel,     \* scan id -> the cancel_scan request in flight on that scan
    trigger,    \* project id -> the number of trigger_scan requests for it
                \* that passed the running-scan check and have yet to insert
    response,   \* the last response trigger_scan gave: [code, project_id]
    call,       \* a call of a service of app/services made on its own
                \* (ScoringEngine, StackDetector, SCAScanner): the method,
                \* its arguments and, once it returned, what it returned
    requests,   \* request slot -> the generate_fix or generate_test request
                \* in that slot: its position and, once answered, its answer
    _oauth_states,  \* github.py: state token -> the id of the user it is for
    users,      \* table users: id -> [github_access_token, github_username]
    auth_urls,  \* the answers of github_auth so far: the n-th one carries
                \* state token n and went to user auth_urls[n]
    callbacks   \* callback slot -> the github_callback request in that slot

vars ==
    <<orm, scans, findings, projects, task, cancel, trigger, response, call,
      requests, _oauth_states, users, auth_urls, callbacks>>

\* the variables of the scan orchestrator
api == <<orm, scans, findings, projects, task, cancel, trigger, response>>
\* the variables of the other routers
oauth == <<_oauth_states, users, auth_urls, callbacks>>
web == <<requests, oauth>>

\* ----------------------------------------------------------------- helpers
Min(a, b) == IF a < b THEN a ELSE b

RECURSIVE Count(_, _)
\* sum(1 for f in findings if f.severity == sev)
Count(list, sev) ==
    IF list = <<>> THEN 0
    ELSE (IF Head(list) = sev THEN 1 ELSE 0) + Count(Tail(list), sev)

\* the finding lists a runner may return
FindingLists ==
    UNION {[1..n -> InputSeverities] : n \in 0..MaxFindings}

Exists(s) == s \in DOMAIN scans

\* Scan(...) of trigger_scan.  A nullable numeric column that is NULL holds
\* -1 (a score) or 0 (latest_scan_id; ids start at 1); overall_score and
\* latest_score are held in tenths, the "score" of a domain in units.
NewScanStarted(p) ==
    [project_id |-> p, status |-> "pending", status_message |-> NULL,
     message_len |-> 0, progress |-> 0, started_at |-> TRUE,
     completed_at |-> FALSE, overall_score |-> -1, total_findings |-> 0,
     critical_count |-> 0, high_count |-> 0, medium_count |-> 0,
     low_count |-> 0, domain_scores |-> NULL]
NewScan(p) ==
    [project_id |-> p, status |-> "pending", status_message |-> NULL,
     message_len |-> 0, progress |-> 0, started_at |-> FALSE,
     completed_at |-> FALSE, overall_score |-> -1, total_findings |-> 0,
     critical_count |-> 0, high_count |-> 0, medium_count |-> 0,
     low_count |-> 0, domain_scores |-> NULL]

NoTask ==
    [pc |-> "none", phase |-> 0, temp_dir |-> "none", stack |-> NULL,
     languages |-> <<>>, sast |-> <<>>, sast_errors |-> <<>>, sca |-> <<>>,
     pending |-> <<>>, exc |-> NULL, exc_len |-> 0]

\* a cancel_scan request: pc is its position; the rest records what the
\* requests on this scan did so far (called while the scan was recorded as
\* scanning_sast, answered 200, ended in AttributeError)
NoCancel ==
    [pc |-> "idle", at_sast |-> FALSE, accepted |-> FALSE, raised |-> FALSE]

\* no service was called on its own
NoCall == [fn |-> "none"]

\* the slots for requests to the fixes router, and a slot not yet used
RequestIds == {1, 2}
NoRequest ==
    [pc |-> "idle", fn |-> "none", finding |-> <<0, 0>>,
     regenerate |-> FALSE, code |-> 0, cached |-> FALSE, body |-> NULL,
     explanation |-> NULL]

\* the users, and the slots for requests to /github/callback
Users == {1, 2}
CallbackIds == 1..MaxCallbacks
NoCallback ==
    [pc |-> "none", state |-> 0, code |-> NULL, user_id |-> 0,
     access_token |-> NULL, status |-> 0]

\* ScanStatus.<member>: AttributeError unless the class has the member
HasMember(name) == name \in orm.ScanStatus

\* -------------------------------------------------------------------- Init
\* the datastore holding the projects ps and no scan yet
InitTables(ps) ==
    /\ scans = <<>>
    /\ findings = [s \in ScanIds |-> <<>>]
    /\ projects = [p \in ps |->
                     [source_type |-> "github", stack |-> "unknown",
                      latest_scan_id |-> 0, latest_score |-> -1]]
    /\ task = [s \in ScanIds |-> NoTask]
    /\ cancel = [s \in ScanIds |-> NoCancel]
    /\ trigger = [p \in Projects |-> 0]
    /\ response = [code |-> 0, project_id |-> 0]
    /\ requests = [r \in RequestIds |-> NoRequest]
    /\ _oauth_states = <<>>
    /\ users = [u \in Users |->
                  [github_access_token |-> NULL, github_username |-> NULL]]
    /\ auth_urls = <<>>
    /\ callbacks = [c \in CallbackIds |-> NoCallback]

Init == orm = ModelsAsDeclared /\ InitTables(Projects) /\ call = NoCall

\* one project: two full runs of execute_scan interleave only on one project
InitRev002 == orm = ModelsAtRev002 /\ InitTables({1}) /\ call = NoCall

\* ------------------------------------------------------------ trigger_scan
\* the rows the "existing running scan" query of trigger_scan selects
RunningScans(p) ==
    {s \in DOMAIN scans :
        scans[s].project_id = p /\ scans[s].status \in RunningStatuses}

\* the trigger_scan requests that passed the check and have yet to insert
RECURSIVE InFlight(_)
InFlight(ps) ==
    IF ps = {} THEN 0
    ELSE LET p == CHOOSE q \in ps : TRUE IN trigger[p] + InFlight(ps \ {p})

\* trigger_scan up to the result of the running-scan query:
\* scalar_one_or_none() raises MultipleResultsFound on two rows (500),
\* a row found is rejected with 400, no row lets the request go on.
trigger_scan_check(p) ==
    /\ p \in DOMAIN projects                    \* else 404
    /\ Len(scans) + InFlight(Projects) < MaxScans
    /\ LET n == Cardinality(RunningScans(p)) IN
       IF n = 0
       THEN /\ trigger' = [trigger EXCEPT ![p] = @ + 1]
            /\ response' = response
       ELSE /\ trigger' = trigger
            /\ response' = [code |-> IF n = 1 THEN 400 ELSE 500,
                             project_id |-> p]
    /\ UNCHANGED <<web, call, orm, scans, findings, projects, task, cancel>>

\* trigger_scan from db.add(scan) on: the commit inserts the row, and the
\* background task is queued only after the commit went through.
trigger_scan_insert(p) ==
    /\ trigger[p] > 0
    /\ \E commit_ok \in BOOLEAN :
         LET id == Len(scans) + 1 IN
         IF commit_ok
         THEN /\ scans' = Append(scans, NewScan(p))
              /\ task' = [task EXCEPT ![id] = [NoTask EXCEPT !.pc = "queued"]]
              /\ response' = [code |-> 201, project_id |-> p]
         ELSE /\ UNCHANGED <<scans, task>>
              /\ response' = [code |-> 500, project_id |-> p]
    /\ trigger' = [trigger EXCEPT ![p] = @ - 1]
    /\ UNCHANGED <<web, call, orm, findings, projects, cancel>>

\* ------------------------------------------------------------- cancel_scan
\* cancel_scan up to the cancellable check.  Building terminal_statuses
\* evaluates ScanStatus.CANCELLED: without that member the request ends in
\* AttributeError before anything is compared or written.
cancel_scan_load(s) ==
    /\ Exists(s)
    /\ cancel[s].pc = "idle"
    /\ LET c == [cancel[s] EXCEPT
                    !.at_sast = @ \/ scans[s].status = "scanning_sast"]
       IN
       IF ~HasMember("cancelled")
       THEN cancel' = [cancel EXCEPT ![s] = [c EXCEPT !.raised = TRUE]]
       ELSE IF scans[s].status \in terminal_statuses
       THEN cancel' = [cancel EXCEPT ![s] = c]
       ELSE cancel' = [cancel EXCEPT ![s] = [c EXCEPT !.pc = "loaded"]]
    /\ UNCHANGED <<web, call, orm, scans, findings, projects,
                   task, trigger, response>>

\* cancel_scan from "Mark as cancelled" on: the UPDATE carries no condition
\* on the status the row has by now.
cancel_scan_commit(s) ==
    /\ cancel[s].pc = "loaded"
    /\ scans' = [scans EXCEPT ![s].status = "cancelled",
                              ![s].status_message = "Cancelled by user",
                              ![s].message_len = 17,
                              ![s].completed_at = TRUE]
    /\ cancel' = [cancel EXCEPT ![s].pc = "idle", ![s].accepted = TRUE]
    /\ UNCHANGED <<web, call, orm, findings, projects, task, trigger, response>>

\* ----------------------------------------------------------- github router
\* the authorization codes a callback carries, and what GitHub holds for them:
\* the access token it exchanges the code for and the login of that token
Codes == {"code A", "code B"}
AccessTokenOf(code) == IF code = "code A" THEN "gho_A" ELSE "gho_B"
LoginOf(access_token) == IF access_token = "gho_A" THEN "octocat" ELSE "hubot"

\* dict.pop(state, None) and dict.get(state): the dict without the key, and
\* the value (0 stands for None; user ids start at 1)
DictWithout(d, k) == [x \in DOMAIN d \ {k} |-> d[x]]
DictGet(d, k) == IF k \in DOMAIN d THEN d[k] ELSE 0

\* github_auth: secrets.token_urlsafe(32) is 256 random bits, a token no
\* earlier call drew; tokens are numbered in the order they are drawn
github_auth(u) ==
    /\ Len(auth_urls) < MaxStates
    /\ \E configured \in BOOLEAN :
         IF ~configured
         THEN UNCHANGED <<_oauth_states, auth_urls>>
         ELSE LET state == Len(auth_urls) + 1 IN
              /\ _oauth_states' =
                    [x \in DOMAIN _oauth_states \cup {state} |->
                        IF x = state THEN u ELSE _oauth_states[x]]
              /\ auth_urls' = Append(auth_urls, u)
    /\ UNCHANGED <<api, call, requests, users, callbacks>>

\* github_callback that looks the state up and leaves it in the dict
github_callback_get(c, state, code) ==
    /\ callbacks[c].pc = "none"
    /\ LET user_id == DictGet(_oauth_states, state) IN
       /\ _oauth_states' = _oauth_states
       /\ callbacks' =
             [callbacks EXCEPT ![c] =
                 IF user_id = 0
                 THEN [NoCallback EXCEPT !.pc = "done", !.state = state,
                                         !.code = code, !.status = 400]
                 ELSE [NoCallback EXCEPT !.pc = "popped", !.state = state,
                                         !.code = code, !.user_id = user_id]]
    /\ UNCHANGED <<api, call, requests, users, auth_urls>>

\* github_callback up to the first await: "Verify state"
github_callback_pop(c, state, code) ==
    /\ callbacks[c].pc = "none"
    /\ LET user_id == DictGet(_oauth_states, state) IN
       /\ _oauth_states' = DictWithout(_oauth_states, state)
       /\ callbacks' =
             [callbacks EXCEPT ![c] =
                 IF user_id = 0
                 THEN [NoCallback EXCEPT !.pc = "done", !.state = state,
                                         !.code = code, !.status = 400]
                 ELSE [NoCallback EXCEPT !.pc = "popped", !.state = state,
                                         !.code = code, !.user_id = user_id]]
    /\ UNCHANGED <<api, call, requests, users, auth_urls>>

\* github_callback from "Get user" to the reply of exchange_code: the request
\* raised, GitHub answered without an access_token, or with the token
github_callback_exchange(c) ==
    /\ callbacks[c].pc = "popped"
    /\ \E reply \in {"raised", NULL, AccessTokenOf(callbacks[c].code)} :
         callbacks' =
            [callbacks EXCEPT ![c] =
                IF reply = "raised"
                THEN [@ EXCEPT !.pc = "done", !.status = 500]
                ELSE IF reply = NULL
                THEN [@ EXCEPT !.pc = "done", !.status = 400]
                ELSE [@ EXCEPT !.pc = "exchanged", !.access_token = reply]]
    /\ UNCHANGED <<api, call, requests, _oauth_states, users, auth_urls>>

\* github_callback from "Get GitHub user info" on: get_user raised, or the
\* token and the login are saved to the user
github_callback_save(c) ==
    /\ callbacks[c].pc = "exchanged"
    /\ \/ /\ users' = [users EXCEPT
                         ![callbacks[c].user_id] =
                            [github_access_token |-> callbacks[c].access_token,
                             github_username |->
                                LoginOf(callbacks[c].access_token)]]
          /\ callbacks' = [callbacks EXCEPT ![c].pc = "done",
                                            ![c].status = 307]
       \/ /\ users' = users
          /\ callbacks' = [callbacks EXCEPT ![c].pc = "done",
                                            ![c].status = 500]
    /\ UNCHANGED <<api, call, requests, _oauth_states, auth_urls>>

disconnect_github(u) ==
    /\ users[u].github_access_token # NULL
    /\ users' = [users EXCEPT
                    ![u] = [github_access_token |-> NULL,
                            github_username |-> NULL]]
    /\ UNCHANGED <<api, call, requests, _oauth_states, auth_urls, callbacks>>

\* ----------------------------------------------------------- ScoringEngine
\* services/scoring.py.  Scores are whole numbers held in floats; overall is
\* held in tenths and a weight in hundredths.

\* what the methods look for in the tree at project_path: files by name, the
\* number of test files, and patterns in the text of the source files
FileFeatures == {"test_config", "coverage", "ci", "docker"}
TestFileCounts == {0, 1, 11}
\* env_usage: process.env. / os.environ / os.getenv; env_file: dotenv / .env
ContentFeatures ==
    {"error_handling", "retry_logic", "env_usage", "env_file", "logging",
     "health", "monitoring", "caching", "async", "n_plus_one", "secrets"}
Trees ==
    [files : SUBSET FileFeatures, test_files : TestFileCounts,
     content : SUBSET ContentFeatures]

\* the finding lists handed to the engine, by the severity of each finding
ScoredLists == UNION {[1..n -> Severity] : n \in 0..MaxScored}
\* the lists calculate is called with here; _score_security has them all
CalculateLists == {<<>>, <<"low">>}

WeightsSecurityHeavy ==
    [security |-> 30, testing |-> 20, reliability |-> 20,
     observability |-> 15, performance |-> 10, infrastructure |-> 5]
WEIGHTS ==
    [security |-> 25, testing |-> 20, reliability |-> 20,
     observability |-> 15, performance |-> 10, infrastructure |-> 10]

severity_penalties == [critical |-> 20, high |-> 10, medium |-> 3, low |-> 1]

\* Penalty with the default of severity_penalties.get taken as medium's
PenaltyDefaultMedium(sev) ==
    IF sev \in DOMAIN severity_penalties THEN severity_penalties[sev] ELSE 3
\* severity_penalties.get(severity.lower(), 2)
Penalty(sev) ==
    IF sev \in DOMAIN severity_penalties THEN severity_penalties[sev] ELSE 2

Max(a, b) == IF a > b THEN a ELSE b
\* Clamp that returns the score as it is
ClampNone(score) == score
\* max(0, min(100, score))
Clamp(score) == Max(0, Min(100, score))

RECURSIVE Deduct(_, _)
\* "for finding in findings: base_score -= penalty"
Deduct(base_score, list) ==
    IF list = <<>> THEN base_score
    ELSE Deduct(base_score - Penalty(Head(list)), Tail(list))

Bonus(present, points) == IF present THEN points ELSE 0

SecurityScore(sast, sca) == Clamp(Deduct(Deduct(100, sast), sca))

TestingScore(tree) ==
    Clamp(50 + Bonus("test_config" \in tree.files, 15)
             + Bonus(tree.test_files > 0, Min(20, tree.test_files * 2))
             + Bonus("coverage" \in tree.files, 15))

ReliabilityScore(tree) ==
    Clamp(60 + Bonus("error_handling" \in tree.content, 10)
             + Bonus("retry_logic" \in tree.content, 15)
             + Bonus({"env_usage", "env_file"} \cap tree.content # {}, 15))

ObservabilityScore(tree) ==
    Clamp(50 + Bonus("logging" \in tree.content, 20)
             + Bonus("health" \in tree.content, 20)
             + Bonus("monitoring" \in tree.content, 10))

PerformanceScore(tree) ==
    Clamp(70 + Bonus("caching" \in tree.content, 15)
             + Bonus("async" \in tree.content, 10)
             - Bonus("n_plus_one" \in tree.content, 10))

InfrastructureScore(tree) ==
    Clamp(40 + Bonus("ci" \in tree.files, 30)
             + Bonus("docker" \in tree.files, 20)
             - Bonus("secrets" \in tree.content, 20)
             + Bonus("env_usage" \in tree.content, 10))

\* sum of score * weight over the six domains, in hundredths
WeightedSum(d) ==
    d.security * WEIGHTS.security + d.testing * WEIGHTS.testing
      + d.reliability * WEIGHTS.reliability
      + d.observability * WEIGHTS.observability
      + d.performance * WEIGHTS.performance
      + d.infrastructure * WEIGHTS.infrastructure

\* round(overall, 1), in tenths.  The sum is a binary float: where the exact
\* sum lies midway between two tenths, the float lies on either side of it.
Round1(hundredths) ==
    LET q == hundredths \div 10
        r == hundredths % 10
    IN IF r < 5 THEN {q} ELSE IF r > 5 THEN {q + 1} ELSE {q, q + 1}

\* the calls of the engine: each method with the arguments it is given
ScoringCalls ==
    [fn : {"_score_security"}, pc : {"called"}, sast : ScoredLists,
     sca : ScoredLists]
      \cup [fn : {"calculate"}, pc : {"called"}, tree : Trees,
            sast : CalculateLists, sca : CalculateLists]

\* ScoringEngine(project_path, sast, sca)._score_security()
_score_security ==
    /\ call.fn = "_score_security" /\ call.pc = "called"
    /\ call' = [fn |-> call.fn, pc |-> "returned", sast |-> call.sast,
                sca |-> call.sca,
                domains |->
                  [security |-> SecurityScore(call.sast, call.sca)]]
    /\ UNCHANGED <<api, web>>

\* ScoringEngine(project_path, sast, sca).calculate()
calculate ==
    /\ call.fn = "calculate" /\ call.pc = "called"
    /\ LET d == [security |-> SecurityScore(call.sast, call.sca),
                 testing |-> TestingScore(call.tree),
                 reliability |-> ReliabilityScore(call.tree),
                 observability |-> ObservabilityScore(call.tree),
                 performance |-> PerformanceScore(call.tree),
                 infrastructure |-> InfrastructureScore(call.tree)]
       IN \E overall \in Round1(WeightedSum(d)) :
            call' = [fn |-> call.fn, pc |-> "returned", tree |-> call.tree,
                     sast |-> call.sast, sca |-> call.sca, domains |-> d,
                     overall |-> overall]
    /\ UNCHANGED <<api, web>>

\* ------------------------------------------------------------- SASTScanner
\* services/scanner/sast.py.  The scanner runs the semgrep binary on the
\* tree and reads what the process wrote.

\* the languages execute_scan passes for a stack
SastLanguages == {<<>>, <<"javascript", "typescript">>, <<"python">>}

\* _map_semgrep_severity: mapping.get(severity.upper(), Severity.MEDIUM)
_map_semgrep_severity(severity) ==
    IF severity = "ERROR" THEN "high"
    ELSE IF severity = "WARNING" THEN "medium"
    ELSE IF severity = "INFO" THEN "low"
    ELSE IF severity = "INVENTORY" THEN "info"
    ELSE "medium"

\* an entry of "results" in semgrep's JSON: a match with its extra.severity,
\* or a value finding.get(...) cannot be called on
SemgrepResults ==
    {[severity |-> v] : v \in {"ERROR", "INVENTORY", "EXPERIMENT"}}
      \cup {[malformed |-> TRUE]}
\* what the process wrote to standard output: nothing, text that is no JSON,
\* or a document with "results" and "errors"
Stdouts ==
    {[text |-> "empty"], [text |-> "not json"]}
      \cup {[text |-> "json", results |-> r, errors |-> e] :
              r \in UNION {[1..n -> SemgrepResults] : n \in 0..MaxResults},
              e \in {<<>>, <<"semgrep_error">>}}
\* how the run of the engine ends: create_subprocess_exec raises
\* FileNotFoundError or another OSError, communicate() outlasts the timeout,
\* or the process exits
EngineRuns ==
    {[kind |-> k] : k \in {"not_found", "os_error", "timeout"}}
      \cup [kind : {"exited"}, returncode : {0, 1, 2},
            stderr : {"", "semgrep: error"}, stdout : Stdouts]

\* the command line: --config=auto, the custom rules if the directory
\* exists, and the packs of each language in turn
RECURSIVE LanguageConfigs(_)
LanguageConfigs(languages) ==
    IF languages = <<>> THEN <<>>
    ELSE (IF Head(languages) \in {"javascript", "typescript", "js", "ts"}
          THEN <<"p/javascript", "p/typescript">>
          ELSE IF Head(languages) \in {"python", "py"} THEN <<"p/python">>
          ELSE <<>>)
         \o LanguageConfigs(Tail(languages))
Cmd(languages, custom_rules) ==
    <<"auto">> \o (IF custom_rules THEN <<"semgrep-rules">> ELSE <<>>)
       \o LanguageConfigs(languages)

SASTResult == [findings |-> <<>>, errors |-> <<>>]

\* _parse_semgrep_output: one SASTFinding for each entry of results, an
\* error for an entry that raises, then the messages of errors
RECURSIVE ParseResults(_, _)
ParseResults(result, results) ==
    IF results = <<>> THEN result
    ELSE ParseResults(
           IF "malformed" \in DOMAIN Head(results)
           THEN [result EXCEPT !.errors = Append(@, "Error parsing finding")]
           ELSE [result EXCEPT !.findings =
                    Append(@, _map_semgrep_severity(Head(results).severity))],
           Tail(results))
_parse_semgrep_output(output, result) ==
    LET parsed == ParseResults(result, output.results)
    IN [parsed EXCEPT !.errors = @ \o output.errors]

\* SastScan with the timeout recorded nowhere
SastScanSilentTimeout(run) ==
    IF run.kind = "timeout" THEN SASTResult
    ELSE IF run.kind = "not_found"
    THEN [SASTResult EXCEPT !.errors = <<"Semgrep not installed">>]
    ELSE IF run.kind = "os_error"
    THEN [SASTResult EXCEPT !.errors = <<"Scan error">>]
    ELSE IF run.returncode \notin {0, 1}
    THEN IF run.stderr # "" THEN [SASTResult EXCEPT !.errors = <<run.stderr>>]
         ELSE SASTResult
    ELSE IF run.stdout.text = "empty" THEN SASTResult
    ELSE IF run.stdout.text = "not json"
    THEN [SASTResult EXCEPT !.errors = <<"Failed to parse Semgrep output">>]
    ELSE _parse_semgrep_output(run.stdout, SASTResult)
\* SASTScanner.scan: the SASTResult for a run of the engine
SastScan(run) ==
    IF run.kind = "timeout"
    THEN [SASTResult EXCEPT !.errors = <<"Scan timeout (exceeded 10 minutes)">>]
    ELSE IF run.kind = "not_found"
    THEN [SASTResult EXCEPT !.errors = <<"Semgrep not installed">>]
    ELSE IF run.kind = "os_error"
    THEN [SASTResult EXCEPT !.errors = <<"Scan error">>]
    ELSE IF run.returncode \notin {0, 1}
    THEN IF run.stderr # "" THEN [SASTResult EXCEPT !.errors = <<run.stderr>>]
         ELSE SASTResult
    ELSE IF run.stdout.text = "empty" THEN SASTResult
    ELSE IF run.stdout.text = "not json"
    THEN [SASTResult EXCEPT !.errors = <<"Failed to parse Semgrep output">>]
    ELSE _parse_semgrep_output(run.stdout, SASTResult)

\* run_sast_scan(project_path, languages): SASTScanner(project_path).scan
run_sast_scan ==
    /\ call.fn = "run_sast_scan" /\ call.pc = "called"
    /\ call' = [fn |-> call.fn, pc |-> "returned",
                languages |-> call.languages,
                custom_rules |-> call.custom_rules, run |-> call.run,
                cmd |-> Cmd(call.languages, call.custom_rules),
                raised |-> FALSE, result |-> SastScan(call.run)]
    /\ UNCHANGED <<api, web>>

\* ------------------------------------------------------------ execute_scan
\* The task is a sequence of steps, each ending at an await on the datastore
\* or on a collaborator.  pc: queued -> (check -> write -> work)* -> final
\* -> done, with handler (the except clause) and escaped (the exception left
\* the task) on the side.  phase is the phase 1..5 being entered or run.

ShortText == CHOOSE n \in ExceptionLengths : \A m \in ExceptionLengths : n <= m

\* control passes to "except Exception as e"
Raise(t, type, len) ==
    [t EXCEPT !.pc = "handler", !.phase = 0, !.stack = NULL,
              !.languages = <<>>, !.sast = <<>>,
              !.sast_errors = <<>>, !.sca = <<>>,
              !.exc = type, !.exc_len = len]

\* a commit that raises rolls the session back: pending rows are expunged
RaiseInCommit(t, len) ==
    [Raise(t, "DBAPIError", len) EXCEPT !.pending = <<>>]

\* "Get scan and project": scalar_one() on both rows
execute_scan_load(s) ==
    /\ task[s].pc = "queued"
    /\ \E db_ok \in BOOLEAN :
         task' = [task EXCEPT ![s] =
                    IF db_ok
                    THEN [@ EXCEPT !.pc = "check", !.phase = 1]
                    ELSE Raise(@, "DBAPIError", ShortText)]
    /\ UNCHANGED <<web, call, orm, scans, findings, projects,
                   cancel, trigger, response>>

\* is_cancelled with "return False" for every status read
is_cancelled_never(s) ==
    /\ task[s].pc = "check"
    /\ \E db_ok \in BOOLEAN :
         task' = [task EXCEPT ![s] =
                    IF ~db_ok
                    THEN Raise(@, "DBAPIError", ShortText)
                    ELSE IF ~HasMember("cancelled")
                    THEN Raise(@, "AttributeError", ShortText)
                    ELSE [@ EXCEPT !.pc = "write"]]
    /\ UNCHANGED <<web, call, orm, scans, findings, projects,
                   cancel, trigger, response>>
\* "if await is_cancelled(): ... return" in front of phase task[s].phase.
\* is_cancelled reads Scan.status from the datastore and compares it with
\* ScanStatus.CANCELLED; the branches in front of phases 2..5 remove the
\* temporary directory before they return.
is_cancelled(s) ==
    /\ task[s].pc = "check"
    /\ \E db_ok \in BOOLEAN :
         task' = [task EXCEPT ![s] =
                    IF ~db_ok
                    THEN Raise(@, "DBAPIError", ShortText)
                    ELSE IF ~HasMember("cancelled")
                    THEN Raise(@, "AttributeError", ShortText)
                    ELSE IF scans[s].status = "cancelled"
                    THEN [@ EXCEPT !.pc = "done", !.phase = 0,
                                   !.stack = NULL, !.languages = <<>>,
                                   !.sast = <<>>, !.sast_errors = <<>>,
                                   !.sca = <<>>,
                                   !.temp_dir = IF @ = "present"
                                                THEN "removed" ELSE @]
                    ELSE [@ EXCEPT !.pc = "write"]]
    /\ UNCHANGED <<web, call, orm, scans, findings, projects,
                   cancel, trigger, response>>

\* "scan.status = ...; scan.progress = ...; await db.commit()" on entry to
\* phase task[s].phase.  The UPDATE names the row by id only.
execute_scan_status(s) ==
    /\ task[s].pc = "write"
    /\ LET k == task[s].phase IN
       \E db_ok \in BOOLEAN :
         IF db_ok
         THEN /\ scans' = [scans EXCEPT
                             ![s].status = PhaseStatus[k],
                             ![s].progress = PhaseProgress[k],
                             ![s].started_at = IF k = 1 THEN TRUE ELSE @]
              /\ task' = [task EXCEPT ![s].pc = "work"]
         ELSE /\ scans' = scans
              /\ task' = [task EXCEPT ![s] = RaiseInCommit(@, ShortText)]
    /\ UNCHANGED <<web, call, orm, findings, projects, cancel, trigger, response>>

\* phase 1: tempfile.mkdtemp, then, for a project whose source is github,
\* download and extraction, which may raise
execute_scan_clone(s) ==
    /\ task[s].pc = "work" /\ task[s].phase = 1
    /\ \E ok \in BOOLEAN, len \in ExceptionLengths :
         task' = [task EXCEPT ![s] =
                    IF ok \/ projects[scans[s].project_id].source_type # "github"
                    THEN [@ EXCEPT !.pc = "check", !.phase = 2,
                                   !.temp_dir = "present"]
                    ELSE [Raise(@, "HTTPStatusError", len)
                            EXCEPT !.temp_dir = "present"]]
    /\ UNCHANGED <<web, call, orm, scans, findings, projects,
                   cancel, trigger, response>>

\* "Determine languages for scanning"
Languages(stack) ==
    IF stack \in {"nextjs", "express"} THEN <<"javascript", "typescript">>
    ELSE IF stack \in {"django", "fastapi"} THEN <<"python">>
    ELSE <<>>

\* phase 2: detect_stack; a stack other than unknown is written to the
\* project and committed; then the languages for the SAST run are chosen
execute_scan_detect(s) ==
    /\ task[s].pc = "work" /\ task[s].phase = 2
    /\ \E stack \in DetectedStacks, db_ok \in BOOLEAN :
         LET p == scans[s].project_id
             next == [task EXCEPT ![s].pc = "check", ![s].phase = 3,
                                  ![s].stack = stack,
                                  ![s].languages = Languages(stack)]
         IN
         IF stack = "unknown"
         THEN /\ projects' = projects
              /\ task' = next
         ELSE IF db_ok
         THEN /\ projects' = [projects EXCEPT ![p].stack = stack]
              /\ task' = next
         ELSE /\ projects' = projects
              /\ task' = [task EXCEPT ![s] = RaiseInCommit(@, ShortText)]
    /\ UNCHANGED <<web, call, orm, scans, findings, cancel, trigger, response>>

\* the runs of the engine the environment feeds execute_scan with
PipelineRuns ==
    {[kind |-> "timeout"], [kind |-> "not_found"]}
      \cup {[kind |-> "exited", returncode |-> 0, stderr |-> "",
              stdout |-> [text |-> "json", results |-> <<>>,
                          errors |-> <<>>]]}
      \cup {[kind |-> "exited", returncode |-> 1, stderr |-> "",
              stdout |-> [text |-> "json",
                          results |-> <<[severity |-> "ERROR"]>>,
                          errors |-> <<>>]]}

\* phase 3: run_sast_scan(project_path, languages) returns its errors as
\* data and never raises; sast holds the severities of
\* sast_result.findings.  stack_result and languages are read no more.
execute_scan_sast(s) ==
    /\ task[s].pc = "work" /\ task[s].phase = 3
    /\ \E run \in PipelineRuns :
         task' = [task EXCEPT ![s].pc = "check", ![s].phase = 4,
                              ![s].stack = NULL, ![s].languages = <<>>,
                              ![s].sast = SastScan(run).findings,
                              ![s].sast_errors = SastScan(run).errors]
    /\ UNCHANGED <<web, call, orm, scans, findings, projects,
                   cancel, trigger, response>>

\* phase 4: run_sca_scan returns its errors as data and never raises
execute_scan_sca(s) ==
    /\ task[s].pc = "work" /\ task[s].phase = 4
    /\ \E list \in FindingLists :
         task' = [task EXCEPT ![s].pc = "check", ![s].phase = 5,
                              ![s].sca = list]
    /\ UNCHANGED <<web, call, orm, scans, findings, projects,
                   cancel, trigger, response>>

\* the keyword arguments of Finding(...) in the two "Store findings" loops
SastKwargs ==
    {"scan_id", "finding_type", "severity", "category", "title",
     "description", "file_path", "line_start", "line_end", "code_snippet",
     "cwe_id", "owasp_category", "rule_id", "layman_explanation"}
ScaKwargs ==
    {"scan_id", "finding_type", "severity", "category", "title",
     "description", "package_name", "package_version", "fixed_version",
     "cve_id", "layman_explanation"}
\* the attributes the loops read from a runner's finding
SastReads == SastKwargs \ {"scan_id", "finding_type"}
ScaReads == ScaKwargs \ {"scan_id", "finding_type", "category"}

\* the exception one pass of a loop raises, or NULL: the arguments are
\* evaluated first (AttributeError on a field the dataclass lacks), then the
\* declarative constructor rejects a keyword that is no mapped column
StoreError(reads, fields, kwargs) ==
    IF ~(reads \subseteq fields) THEN "AttributeError"
    ELSE IF ~(kwargs \subseteq orm.FindingColumns) THEN "TypeError"
    ELSE NULL

\* SastRow with package_name populated as well
SastRowWithPackage(sev) ==
    [finding_type |-> "sast", severity |-> sev, category |-> "other",
     columns |-> SastKwargs \cup {"package_name"},
     fix_suggestion |-> NULL, fix_explanation |-> NULL,
     test_suggestion |-> NULL]
\* the Finding a pass of a loop builds: columns are the columns its keyword
\* arguments populate
SastRow(sev) ==
    [finding_type |-> "sast", severity |-> sev, category |-> "other",
     columns |-> SastKwargs, fix_suggestion |-> NULL,
     fix_explanation |-> NULL, test_suggestion |-> NULL]
ScaRow(sev) ==
    [finding_type |-> "sca", severity |-> sev, category |-> "dependency",
     columns |-> ScaKwargs, fix_suggestion |-> NULL,
     fix_explanation |-> NULL, test_suggestion |-> NULL]

SastRows(list) == [i \in 1..Len(list) |-> SastRow(list[i])]
ScaRows(list) == [i \in 1..Len(list) |-> ScaRow(list[i])]

\* phase 5 up to the final commit: both loops add Finding objects to the
\* session (nothing is flushed yet), then calculate_readiness_score runs
execute_scan_store(s) ==
    /\ task[s].pc = "work" /\ task[s].phase = 5
    /\ LET t == task[s]
           e1 == IF t.sast = <<>> THEN NULL
                 ELSE StoreError(SastReads, SASTFinding, SastKwargs)
           e2 == IF t.sca = <<>> THEN NULL
                 ELSE StoreError(ScaReads, SCAFinding, ScaKwargs)
       IN task' = [task EXCEPT ![s] =
                     IF e1 # NULL THEN Raise(@, e1, ShortText)
                     ELSE IF e2 # NULL
                     THEN [Raise(@, e2, ShortText)
                             EXCEPT !.pending = SastRows(t.sast)]
                     ELSE [@ EXCEPT !.pc = "final",
                                    !.pending = SastRows(t.sast)
                                                  \o ScaRows(t.sca)]]
    /\ UNCHANGED <<web, call, orm, scans, findings, projects,
                   cancel, trigger, response>>

\* the tree in the temporary directory when the score is calculated
ScannedTrees == {[files |-> {}, test_files |-> 0, content |-> {}]}

\* calculate_readiness_score(project_path, sast, sca): the six domain scores
\* and the overall values round() may return for them
Readiness(tree, sast, sca) ==
    LET d == [security |-> SecurityScore(sast, sca),
              testing |-> TestingScore(tree),
              reliability |-> ReliabilityScore(tree),
              observability |-> ObservabilityScore(tree),
              performance |-> PerformanceScore(tree),
              infrastructure |-> InfrastructureScore(tree)]
    IN [domains |-> d, overall |-> Round1(WeightedSum(d))]

\* "Update scan with results" to the end of the try block: one commit writes
\* the scan, the pending Finding rows and the project's latest_* fields;
\* the temporary directory is removed after it.
execute_scan_complete(s) ==
    /\ task[s].pc = "final"
    /\ \E db_ok \in BOOLEAN, tree \in ScannedTrees :
         LET t == task[s]
             p == scans[s].project_id
             both == t.sast \o t.sca
             readiness == Readiness(tree, t.sast, t.sca)
         IN
         \E overall \in readiness.overall :
         IF db_ok
         THEN /\ scans' = [scans EXCEPT
                   ![s].status = "completed",
                   ![s].progress = CompletedProgress,
                   ![s].completed_at = TRUE,
                   ![s].overall_score = overall,
                   ![s].domain_scores = readiness.domains,
                   ![s].total_findings = Len(t.sast) + Len(t.sca),
                   ![s].critical_count = Count(both, "critical"),
                   ![s].high_count = Count(both, "high"),
                   ![s].medium_count = Count(both, "medium"),
                   ![s].low_count = Count(both, "low")]
              /\ findings' = [findings EXCEPT ![s] = @ \o t.pending]
              /\ projects' = [projects EXCEPT ![p].latest_score = overall,
                                              ![p].latest_scan_id = s]
              /\ task' = [task EXCEPT ![s].pc = "done", ![s].phase = 0,
                                      ![s].stack = NULL,
                                      ![s].languages = <<>>,
                                      ![s].sast = <<>>, ![s].sca = <<>>,
                                      ![s].pending = <<>>,
                                      ![s].temp_dir = "removed"]
         ELSE /\ UNCHANGED <<scans, findings, projects>>
              /\ task' = [task EXCEPT ![s] = RaiseInCommit(@, ShortText)]
    /\ UNCHANGED <<web, call, orm, cancel, trigger, response>>

\* "except Exception as e": the scan is read again and marked failed with
\* str(e)[:500]; the commit flushes whatever the session still holds.  The
\* clause has no handler of its own: a datastore error in it leaves the task.
execute_scan_failed(s) ==
    /\ task[s].pc = "handler"
    /\ \E db_ok \in BOOLEAN :
         IF db_ok
         THEN /\ scans' = [scans EXCEPT
                   ![s].status = "failed",
                   ![s].status_message = "exception",
                   ![s].message_len = Min(task[s].exc_len, MessageLimit),
                   ![s].completed_at = TRUE]
              /\ findings' = [findings EXCEPT ![s] = @ \o task[s].pending]
              /\ task' = [task EXCEPT ![s].pc = "done", ![s].pending = <<>>,
                                      ![s].exc_len = 0]
         ELSE /\ UNCHANGED <<scans, findings>>
              /\ task' = [task EXCEPT ![s].pc = "escaped",
                                      ![s].pending = <<>>,
                                      ![s].exc_len = 0]
    /\ UNCHANGED <<web, call, orm, projects, cancel, trigger, response>>

\* ------------------------------------------------------ create_demo_project
\* services/demo.py: the keys of a DEMO_SAST_FINDINGS / DEMO_SCA_FINDINGS entry
DemoSastKeys ==
    {"finding_type", "severity", "category", "title", "description",
     "file_path", "line_start", "line_end", "code_snippet", "cwe_id",
     "rule_id"}
DemoScaKeys ==
    {"finding_type", "severity", "category", "title", "description",
     "package_name", "package_version", "fixed_version", "cve_id"}

DemoSast(sev, cat) ==
    [finding_type |-> "sast", severity |-> sev, category |-> cat,
     keys |-> DemoSastKeys]
DemoSca(sev) ==
    [finding_type |-> "sca", severity |-> sev, category |-> "dependency",
     keys |-> DemoScaKeys]

DEMO_SAST_FINDINGS ==
    <<DemoSast("critical", "secrets"), DemoSast("high", "injection"),
      DemoSast("high", "xss"), DemoSast("medium", "auth"),
      DemoSast("medium", "validation")>>
DEMO_SCA_FINDINGS ==
    <<DemoSca("critical"), DemoSca("high"), DemoSca("medium")>>

\* Finding(scan_id=scan.id, **finding_data)
DemoRow(d) ==
    [finding_type |-> d.finding_type, severity |-> d.severity,
     category |-> d.category, columns |-> d.keys \cup {"scan_id"},
     fix_suggestion |-> NULL, fix_explanation |-> NULL,
     test_suggestion |-> NULL]
DemoRows(list) == [i \in 1..Len(list) |-> DemoRow(list[i])]

DEMO_DOMAIN_SCORES ==
    [security |-> 55, testing |-> 45, reliability |-> 70,
     observability |-> 40, performance |-> 75, infrastructure |-> 60]

\* Scan(...) of create_demo_project; overall_score=57.0
DemoScan(p) ==
    [NewScan(p) EXCEPT
        !.status = "completed", !.progress = 100, !.started_at = TRUE,
        !.completed_at = TRUE, !.overall_score = 570,
        !.domain_scores = DEMO_DOMAIN_SCORES,
        !.total_findings = Len(DEMO_SAST_FINDINGS) + Len(DEMO_SCA_FINDINGS),
        !.critical_count = 2, !.high_count = 3, !.medium_count = 3,
        !.low_count = 0]

\* POST /demo/project for a user who has no demo project yet: one commit
\* inserts the project, its completed scan and the scan's findings.  The
\* project takes the id p not in use.
create_demo_project(p) ==
    /\ p \notin DOMAIN projects
    /\ Len(scans) + InFlight(Projects) < MaxScans
    /\ DemoSastKeys \cup DemoScaKeys \cup {"scan_id"} \subseteq orm.FindingColumns
    /\ LET id == Len(scans) + 1
           scan == DemoScan(p)
       IN /\ scans' = Append(scans, scan)
          /\ findings' = [findings EXCEPT ![id] =
                            DemoRows(DEMO_SAST_FINDINGS)
                               \o DemoRows(DEMO_SCA_FINDINGS)]
          /\ projects' =
               [q \in DOMAIN projects \cup {p} |->
                  IF q = p
                  THEN [source_type |-> "demo", stack |-> "nextjs",
                        latest_scan_id |-> id,
                        latest_score |-> scan.overall_score]
                  ELSE projects[q]]
    /\ UNCHANGED <<web, call, orm, task, cancel, trigger, response>>

\* ------------------------------------------------------------ fixes router
\* api/v1/fixes.py: generate_fix and generate_test.  A request loads the
\* finding, answers from the cache or awaits the LLM provider, then commits.

\* what the provider returns: the code block of the reply (empty when the
\* reply has none) and its explanation
FixedCodes == {"", "patch A", "patch B"}
Explanations == {"", "because"}
TestCodes == {"", "test A"}
\* the findings requests name, as <<scan id, position in the scan>>
FindingIds == {<<1, 1>>, <<2, 1>>}

\* "if finding.fix_suggestion": neither None nor the empty string
Truthy(x) == x \notin {NULL, ""}

\* the row select(Finding)...where(Finding.id == finding_id) returns
Found(id) == id[1] \in DOMAIN scans /\ id[2] \in DOMAIN findings[id[1]]

\* generate_fix up to the await on the provider: 404 unless the finding is
\* the user's, the cached fix unless regenerate, 400 without an LLM key
generate_fix_load(r, id, regenerate) ==
    /\ requests[r].pc = "idle"
    /\ \E owned \in BOOLEAN : \E configured \in {TRUE, ~owned} :
         LET req == [NoRequest EXCEPT !.fn = "generate_fix", !.finding = id,
                                      !.regenerate = regenerate]
         IN requests' = [requests EXCEPT ![r] =
              IF ~(owned /\ Found(id)) THEN [req EXCEPT !.code = 404]
              ELSE LET f == findings[id[1]][id[2]] IN
                   IF Truthy(f.fix_suggestion) /\ ~regenerate
                   THEN [req EXCEPT
                           !.code = 200, !.cached = TRUE,
                           !.body = f.fix_suggestion,
                           !.explanation =
                              IF Truthy(f.fix_explanation)
                              THEN f.fix_explanation
                              ELSE "Previously generated fix."]
                   ELSE IF ~configured THEN [req EXCEPT !.code = 400]
                   ELSE [req EXCEPT !.pc = "generating"]]
    /\ UNCHANGED <<api, call, oauth>>

\* generate_fix_commit that also files the finding under category other
generate_fix_recategorise(r) ==
    /\ requests[r].pc = "generating" /\ requests[r].fn = "generate_fix"
    /\ LET id == requests[r].finding IN
       \E fixed \in FixedCodes, e \in Explanations :
          /\ findings' = [findings EXCEPT
                            ![id[1]][id[2]].fix_suggestion = fixed,
                            ![id[1]][id[2]].fix_explanation = e,
                            ![id[1]][id[2]].category = "other"]
          /\ requests' = [requests EXCEPT
                            ![r].pc = "idle", ![r].code = 200,
                            ![r].body = fixed, ![r].explanation = e]
    /\ UNCHANGED <<oauth, call, orm, scans, projects, task, cancel, trigger,
                   response>>
\* generate_fix from the reply of the provider on: "Cache the fix"
generate_fix_commit(r) ==
    /\ requests[r].pc = "generating" /\ requests[r].fn = "generate_fix"
    /\ LET id == requests[r].finding IN
       \/ \E fixed \in FixedCodes, e \in Explanations :
             /\ findings' = [findings EXCEPT
                               ![id[1]][id[2]].fix_suggestion = fixed,
                               ![id[1]][id[2]].fix_explanation = e]
             /\ requests' = [requests EXCEPT
                               ![r].pc = "idle", ![r].code = 200,
                               ![r].body = fixed, ![r].explanation = e]
       \* the provider or the commit raised
       \/ /\ findings' = findings
          /\ requests' = [requests EXCEPT ![r].pc = "idle", ![r].code = 500]
    /\ UNCHANGED <<oauth, call, orm, scans, projects, task, cancel, trigger,
                   response>>

\* generate_test up to the await on the provider
generate_test_load(r, id, regenerate) ==
    /\ requests[r].pc = "idle"
    /\ \E owned \in BOOLEAN : \E configured \in {TRUE, ~owned} :
         LET req == [NoRequest EXCEPT !.fn = "generate_test", !.finding = id,
                                      !.regenerate = regenerate]
         IN requests' = [requests EXCEPT ![r] =
              IF ~(owned /\ Found(id)) THEN [req EXCEPT !.code = 404]
              ELSE LET f == findings[id[1]][id[2]] IN
                   IF Truthy(f.test_suggestion) /\ ~regenerate
                   THEN [req EXCEPT
                           !.code = 200, !.cached = TRUE,
                           !.body = f.test_suggestion,
                           !.explanation = "Previously generated test."]
                   ELSE IF ~configured THEN [req EXCEPT !.code = 400]
                   ELSE [req EXCEPT !.pc = "generating"]]
    /\ UNCHANGED <<api, call, oauth>>

\* generate_test from the reply of the provider on: "Cache the test"
generate_test_commit(r) ==
    /\ requests[r].pc = "generating" /\ requests[r].fn = "generate_test"
    /\ LET id == requests[r].finding IN
       \/ \E test \in TestCodes, e \in Explanations :
             /\ findings' = [findings EXCEPT
                               ![id[1]][id[2]].test_suggestion = test]
             /\ requests' = [requests EXCEPT
                               ![r].pc = "idle", ![r].code = 200,
                               ![r].body = test, ![r].explanation = e]
       \* the provider or the commit raised
       \/ /\ findings' = findings
          /\ requests' = [requests EXCEPT ![r].pc = "idle", ![r].code = 500]
    /\ UNCHANGED <<oauth, call, orm, scans, projects, task, cancel, trigger,
                   response>>

\* ----------------------------------------------------------- StackDetector
\* services/scanner/stack_detector.py.  A confidence is a double; it is held
\* as 8 * (hundredths) + (units in the last place off the double nearest
\* that decimal), which orders the doubles the checkers produce as the
\* doubles are ordered: 0.3 is 240, 0.1 + 0.2 = 0.30000000000000004 is 241.
Conf(hundredths) == 8 * hundredths

\* the sums c + inc of the checkers whose double is not the one the two
\* encodings add up to, with the difference: <<c, inc, difference>>
FloatCarry ==
    {<<80, 40, 1>>, <<80, 160, 1>>, <<121, 40, -1>>, <<160, 80, 1>>,
     <<320, 160, 1>>, <<440, 40, 1>>, <<481, 160, -1>>, <<520, 40, 1>>,
     <<520, 160, 1>>, <<521, 40, 1>>, <<560, 80, -1>>, <<560, 160, -1>>,
     <<562, 160, -1>>, <<601, 160, 1>>, <<640, 320, 1>>}

\* confidence += inc
FloatAdd(c, inc) ==
    IF \E e \in FloatCarry : e[1] = c /\ e[2] = inc
    THEN c + inc + (CHOOSE e \in FloatCarry : e[1] = c /\ e[2] = inc)[3]
    ELSE c + inc

\* "if <found>: confidence += <hundredths / 100>"
AddIf(c, found, hundredths) ==
    IF found THEN FloatAdd(c, Conf(hundredths)) ELSE c

RECURSIVE AddTimes(_, _, _)
\* "for dep in [...]: if dep in deps: confidence += ..." with n deps found
AddTimes(c, n, hundredths) ==
    IF n = 0 THEN c
    ELSE AddTimes(FloatAdd(c, Conf(hundredths)), n - 1, hundredths)

\* what the checkers look for in the tree at project_path
DetectorFeatures ==
    {"next_config", "router_dir", "dep_next", "dep_react",
     "dep_express", "engines_node", "entry_express",
     "manage_django", "settings_django", "requirements_django",
     "pyproject_django",
     "requirements_fastapi", "requirements_uvicorn", "pyproject_fastapi"}
\* how many of body-parser, cors, helmet, morgan package.json depends on
MiddlewareCounts == {0, 1, 4}
\* the first of main.py, app.py, ... there is: none, one importing fastapi,
\* or one that only has "FastAPI("
FastapiEntries == {"none", "import", "app"}
DetectorTrees ==
    [found : SUBSET DetectorFeatures, middleware : MiddlewareCounts,
     fastapi_entry : FastapiEntries]

StackDetectionResult(stack, confidence) ==
    [stack |-> stack, confidence |-> confidence]

_check_nextjs(tree) ==
    LET c1 == AddIf(0, "next_config" \in tree.found, 40)
        c2 == AddIf(c1, "router_dir" \in tree.found, 20)
        c3 == AddIf(c2, "dep_next" \in tree.found, 30)
        c4 == AddIf(c3, "dep_react" \in tree.found, 10)
    IN StackDetectionResult("nextjs", Min(c4, Conf(100)))

_check_express(tree) ==
    LET c1 == AddIf(0, "dep_express" \in tree.found, 50)
        c2 == AddIf(c1, "engines_node" \in tree.found, 10)
        c3 == AddTimes(c2, tree.middleware, 5)
        c4 == AddIf(c3, "entry_express" \in tree.found, 20)
    IN StackDetectionResult("express", Min(c4, Conf(100)))

_check_django(tree) ==
    LET c1 == AddIf(0, "manage_django" \in tree.found, 40)
        c2 == AddIf(c1, "settings_django" \in tree.found, 30)
        c3 == AddIf(c2, "requirements_django" \in tree.found, 30)
        c4 == AddIf(c3, "pyproject_django" \in tree.found, 20)
    IN StackDetectionResult("django", Min(c4, Conf(100)))

_check_fastapi(tree) ==
    LET c1 == AddIf(0, "requirements_fastapi" \in tree.found, 40)
        c2 == AddIf(c1, "requirements_uvicorn" \in tree.found, 10)
        c3 == AddIf(c2, "pyproject_fastapi" \in tree.found, 30)
        c4 == AddIf(AddIf(c3, tree.fastapi_entry = "import", 40),
                    tree.fastapi_entry = "app", 30)
    IN StackDetectionResult("fastapi", Min(c4, Conf(100)))

\* max(results, key=...) with the last of the largest taken
BestLast(results) ==
    results[CHOOSE i \in DOMAIN results :
              /\ \A j \in DOMAIN results :
                    results[j].confidence <= results[i].confidence
              /\ \A j \in DOMAIN results :
                    j > i => results[j].confidence < results[i].confidence]
\* max(results, key=lambda x: x.confidence): the first of the largest
Best(results) ==
    results[CHOOSE i \in DOMAIN results :
              /\ \A j \in DOMAIN results :
                    results[j].confidence <= results[i].confidence
              /\ \A j \in DOMAIN results :
                    j < i => results[j].confidence < results[i].confidence]

\* the checks in the order detect makes them
Checks(tree) ==
    <<_check_nextjs(tree), _check_fastapi(tree), _check_django(tree),
      _check_express(tree)>>

\* StackDetector.detect, given what its four checks return
Detected(results) ==
    IF results[1].confidence > Conf(70) THEN results[1]
    ELSE IF results[2].confidence > Conf(70) THEN results[2]
    ELSE IF results[3].confidence > Conf(70) THEN results[3]
    ELSE IF results[4].confidence > Conf(70) THEN results[4]
    ELSE IF Best(results).confidence > Conf(30) THEN Best(results)
    ELSE StackDetectionResult("unknown", 0)

DetectorCalls == [fn : {"detect"}, pc : {"called"}, tree : DetectorTrees]

\* StackDetector(project_path).detect(); checks are the results of the four
\* checkers on the tree
detect ==
    /\ call.fn = "detect" /\ call.pc = "called"
    /\ call' = [fn |-> call.fn, pc |-> "returned", tree |-> call.tree,
                checks |-> Checks(call.tree),
                result |-> Detected(Checks(call.tree))]
    /\ UNCHANGED <<api, web>>

\* -------------------------------------------------------------- SCAScanner
\* services/scanner/sca.py

\* the packages a tree may name, and the version it pins each at
NpmNames == {"axios", "lodash"}
PyNames == {"django"}
PinnedVersion ==
    [axios |-> "0.21.1", django |-> "3.2.1", lodash |-> "4.17.15"]
\* the names of S in the order a file lists them
Listed(S) == SelectSeq(<<"axios", "django", "lodash">>, LAMBDA n : n \in S)

\* what the parsers read in the tree at project_path: the names in the
\* "packages" and the "dependencies" section of package-lock.json, in
\* package.json, in requirements.txt and in pyproject.toml
ScaTrees ==
    [lock_packages : SUBSET NpmNames, lock_dependencies : SUBSET NpmNames,
     package_json : SUBSET NpmNames, requirements : SUBSET PyNames,
     pyproject : SUBSET PyNames]

\* packages.append({"ecosystem": ..., "name": ..., "version": ...}) for each
\* name of S
Appended(ecosystem, S) ==
    [i \in 1..Len(Listed(S)) |->
       [ecosystem |-> ecosystem, name |-> Listed(S)[i],
        version |-> PinnedVersion[Listed(S)[i]]]]

_parse_npm_packages(tree) ==
    LET locked == Appended("npm", tree.lock_packages)
                    \o Appended("npm", tree.lock_dependencies)
    IN IF locked # <<>> THEN locked ELSE Appended("npm", tree.package_json)

_parse_python_packages(tree) ==
    Appended("PyPI", tree.requirements) \o Appended("PyPI", tree.pyproject)

\* what the OSV database answers.  An event is {"introduced": v} or
\* {"fixed": v}; a severity entry has a "score", a number (held in tenths) or
\* a CVSS vector, or only a "type".
FixVersions == {"4.17.19", "4.17.21"}
Events == {[introduced |-> "0"]} \cup {[fixed |-> v] : v \in FixVersions}
EventLists == UNION {[1..n -> Events] : n \in 0..MaxEvents}
RangeLists == UNION {[1..n -> [events : EventLists]] : n \in 0..MaxRanges}
AffectedLists ==
    UNION {[1..n -> [ranges : RangeLists]] : n \in 0..MaxAffected}
SeverityLists ==
    {<<>>, <<[score |-> [number |-> 98]]>>,
     <<[score |-> [vector |-> "CVSS:3.1/AV:N/AC:L"]]>>,
     <<[type |-> "HIGH"]>>}

\* _map_osv_severity: comparing a score that is a string with 9.0 raises
\* TypeError
_map_osv_severity(severity_data) ==
    IF "score" \in DOMAIN severity_data
    THEN IF "number" \notin DOMAIN severity_data.score THEN "TypeError"
         ELSE IF severity_data.score.number >= 90 THEN "critical"
         ELSE IF severity_data.score.number >= 70 THEN "high"
         ELSE IF severity_data.score.number >= 40 THEN "medium"
         ELSE "low"
    ELSE IF severity_data.type = "CRITICAL" THEN "critical"
    ELSE IF severity_data.type = "HIGH" THEN "high"
    ELSE "medium"

\* _extract_cve: the first alias that starts with "CVE-"
_extract_cve(aliases) ==
    LET cves == SelectSeq(aliases, LAMBDA a : a.scheme = "CVE")
    IN IF cves = <<>> THEN NULL ELSE Head(cves).id

\* "for event in events: if 'fixed' in event: fixed_version = ...; break"
\* started with fixed_version = fixed
RECURSIVE OverEvents(_, _)
OverEvents(fixed, events) ==
    IF events = <<>> THEN fixed
    ELSE IF "fixed" \in DOMAIN Head(events) THEN Head(events).fixed
    ELSE OverEvents(fixed, Tail(events))

\* "for range_info in ranges: ..."; the break leaves the loop over events only
RECURSIVE OverRanges(_, _)
OverRanges(fixed, ranges) ==
    IF ranges = <<>> THEN fixed
    ELSE OverRanges(OverEvents(fixed, Head(ranges).events), Tail(ranges))

\* "for affected in vuln['affected']: ..."
RECURSIVE OverAffected(_, _)
OverAffected(fixed, affected) ==
    IF affected = <<>> THEN fixed
    ELSE OverAffected(OverRanges(fixed, Head(affected).ranges),
                      Tail(affected))

\* the SCAFinding _query_osv builds for one vuln of the response
FindingFor(package, version, vuln) ==
    [package_name |-> package, package_version |-> version,
     vulnerability_id |-> vuln.id,
     severity |-> IF vuln.severity = <<>> THEN "medium"
                  ELSE _map_osv_severity(Head(vuln.severity)),
     fixed_version |-> OverAffected(NULL, vuln.affected),
     cve_id |-> _extract_cve(vuln.aliases)]

\* an answer of the database: client.post raised (error), or a response
Raises == [error |-> TRUE, status_code |-> 0, vulns |-> <<>>]
Response(status_code, vulns) ==
    [error |-> FALSE, status_code |-> status_code, vulns |-> vulns]

\* _query_osv(client, ecosystem, package, version): what it returns, or that
\* it raised
QueryOsv(package, version, answer) ==
    LET built == [i \in DOMAIN answer.vulns |->
                    FindingFor(package, version, answer.vulns[i])]
    IN IF answer.error THEN [raised |-> TRUE, findings |-> <<>>]
       ELSE IF answer.status_code # 200
       THEN [raised |-> FALSE, findings |-> <<>>]
       ELSE IF \E i \in DOMAIN built : built[i].severity = "TypeError"
       THEN [raised |-> TRUE, findings |-> <<>>]
       ELSE [raised |-> FALSE, findings |-> built]

SCAResult ==
    [findings |-> <<>>, errors |-> <<>>, packages_scanned |-> 0,
     vulnerable |-> {}]

\* "for pkg in packages: try: ... except Exception as e: errors.append(...)"
RECURSIVE Lookups(_, _, _)
Lookups(result, packages, osv) ==
    IF packages = <<>> THEN result
    ELSE LET pkg == Head(packages)
             got == QueryOsv(pkg.name, pkg.version, osv[pkg.name])
             next ==
               IF got.raised
               THEN [result EXCEPT !.errors = Append(@, pkg.name)]
               ELSE [result EXCEPT
                       !.findings = @ \o got.findings,
                       !.vulnerable = IF got.findings = <<>> THEN @
                                      ELSE @ \cup {pkg.name}]
         IN Lookups(next, Tail(packages), osv)

\* the advisory the database holds on a package: the first is the example
\* lodash@4.17.15, CVE-2020-8203, fixed in 4.17.21
Advisories ==
    [lodash |-> [id |-> "GHSA-p6mc-m468-83gw", cve |-> "CVE-2020-8203",
                 fixed |-> "4.17.21"],
     axios |-> [id |-> "GHSA-wf5p-g6vw-rhxx", cve |-> "CVE-2023-45857",
                fixed |-> "1.6.0"],
     django |-> [id |-> "GHSA-xpfp-f569-q3p2", cve |-> "CVE-2021-35042",
                 fixed |-> "3.2.5"]]
Vuln(name, severity) ==
    [id |-> Advisories[name].id,
     aliases |-> <<[scheme |-> "CVE", id |-> Advisories[name].cve]>>,
     severity |-> severity,
     affected |->
       <<[ranges |-> <<[events |-> <<[introduced |-> "0"],
                                     [fixed |-> Advisories[name].fixed]>>]>>]>>]
\* the answers on a package: the post raises, a 503, no vuln, the advisory
\* without a severity, the advisory with a CVSS vector as its score
Answers(name) ==
    {Raises, Response(503, <<>>), Response(200, <<>>),
     Response(200, <<Vuln(name, <<>>)>>),
     Response(200,
              <<Vuln(name, <<[score |-> [vector |-> "CVSS:3.1/AV:N/AC:L"]]>>)>>)}

\* the answers _query_osv is called with: the post raises, a 503, or one
\* vuln with any severity list and any affected list
QueryAnswers ==
    {Raises, Response(503, <<>>)}
      \cup {Response(200, <<[id |-> Advisories.lodash.id, aliases |-> <<>>,
                             severity |-> s, affected |-> a]>>) :
              s \in SeverityLists, a \in AffectedLists}

\* a call of scan on a tree, with the answer the database gives on each
\* package
ScanCall(tree, axios, django, lodash) ==
    [fn |-> "scan", pc |-> "called", tree |-> tree,
     osv |-> [axios |-> axios, django |-> django, lodash |-> lodash]]
\* a call of _query_osv on lodash, with the answer it gets
QueryCall(answer) ==
    [fn |-> "_query_osv", pc |-> "called", package |-> "lodash",
     version |-> PinnedVersion.lodash, response |-> answer]

\* SCAScanner(project_path).scan(); packages is the list it collected
scan ==
    /\ call.fn = "scan" /\ call.pc = "called"
    /\ LET packages == _parse_npm_packages(call.tree)
                         \o _parse_python_packages(call.tree)
           counted == [SCAResult EXCEPT !.packages_scanned = Len(packages)]
           result == IF packages = <<>> THEN counted
                     ELSE Lookups(counted, packages, call.osv)
       IN call' = [fn |-> call.fn, pc |-> "returned", tree |-> call.tree,
                   osv |-> call.osv, packages |-> packages,
                   result |->
                     [findings |-> result.findings,
                      errors |-> result.errors,
                      packages_scanned |-> result.packages_scanned,
                      vulnerable_packages |->
                         Cardinality(result.vulnerable)]]
    /\ UNCHANGED <<api, web>>

\* SCAScanner._query_osv(client, ecosystem, package, version)
_query_osv ==
    /\ call.fn = "_query_osv" /\ call.pc = "called"
    /\ LET got == QueryOsv(call.package, call.version, call.response)
       IN call' = [fn |-> call.fn, pc |-> "returned",
                   package |-> call.package, version |-> call.version,
                   response |-> call.response, raised |-> got.raised,
                   findings |-> got.findings]
    /\ UNCHANGED <<api, web>>

\* ---------------------------------------------------------- specifications
\* the steps the code can take with the ORM classes as declared
Next ==
    \/ \E p \in Projects : trigger_scan_check(p)
    \/ \E p \in Projects : trigger_scan_insert(p)
    \/ \E s \in ScanIds : cancel_scan_load(s)
    \/ \E s \in ScanIds : execute_scan_load(s)
    \/ \E s \in ScanIds : is_cancelled(s)
    \/ \E s \in ScanIds : execute_scan_failed(s)

\* with them the steps that need ScanStatus.CANCELLED to evaluate, and the
\* creation of the demo project, which adds a project to the one there is
NextRev002 ==
    \/ Next
    \/ \E p \in Projects : create_demo_project(p)
    \/ \E s \in ScanIds : cancel_scan_commit(s)
    \/ \E s \in ScanIds : execute_scan_status(s)
    \/ \E s \in ScanIds : execute_scan_clone(s)
    \/ \E s \in ScanIds : execute_scan_detect(s)
    \/ \E s \in ScanIds : execute_scan_sast(s)
    \/ \E s \in ScanIds : execute_scan_sca(s)
    \/ \E s \in ScanIds : execute_scan_store(s)
    \/ \E s \in ScanIds : execute_scan_complete(s)

Spec == Init /\ [][Next]_vars

SpecRev002 == InitRev002 /\ [][NextRev002]_vars

\* the scoring engine called on its own
InitScoring ==
    orm = ModelsAsDeclared /\ InitTables(Projects) /\ call \in ScoringCalls

NextScoring == _score_security \/ calculate

SpecScoring == InitScoring /\ [][NextScoring]_vars

\* the stack detector called on its own
InitDetector ==
    orm = ModelsAsDeclared /\ InitTables(Projects) /\ call \in DetectorCalls

NextDetector == detect

SpecDetector == InitDetector /\ [][NextDetector]_vars

\* the SCA scanner called on its own
InitSca ==
    /\ orm = ModelsAsDeclared /\ InitTables(Projects)
    /\ \/ \E tree \in ScaTrees, a \in Answers("axios"),
             d \in Answers("django"), l \in Answers("lodash") :
             call = ScanCall(tree, a, d, l)
       \/ \E answer \in QueryAnswers : call = QueryCall(answer)

NextSca == scan \/ _query_osv

SpecSca == InitSca /\ [][NextSca]_vars

\* the SAST scanner called on its own
InitSast ==
    /\ orm = ModelsAsDeclared /\ InitTables(Projects)
    /\ \E languages \in SastLanguages, custom_rules \in BOOLEAN,
          run \in EngineRuns :
          call = [fn |-> "run_sast_scan", pc |-> "called",
                  languages |-> languages, custom_rules |-> custom_rules,
                  run |-> run]

NextSast == run_sast_scan

SpecSast == InitSast /\ [][NextSast]_vars

\* the fixes router over the findings of the demo project
InitFixes == orm = ModelsAsDeclared /\ InitTables({1}) /\ call = NoCall

NextFixes ==
    \/ \E p \in Projects : create_demo_project(p)
    \/ \E s \in ScanIds : cancel_scan_load(s)
    \/ \E r \in RequestIds, id \in FindingIds, regenerate \in BOOLEAN :
          generate_fix_load(r, id, regenerate)
    \/ \E r \in RequestIds : generate_fix_commit(r)
    \/ \E r \in RequestIds, id \in FindingIds, regenerate \in BOOLEAN :
          generate_test_load(r, id, regenerate)
    \/ \E r \in RequestIds : generate_test_commit(r)

SpecFixes == InitFixes /\ [][NextFixes]_vars

\* the github router
InitGithub == orm = ModelsAsDeclared /\ InitTables({1}) /\ call = NoCall

NextGithub ==
    \/ \E u \in Users : github_auth(u)
    \/ \E c \in CallbackIds, state \in 1..MaxStates, code \in Codes :
          github_callback_pop(c, state, code)
    \/ \E c \in CallbackIds : github_callback_exchange(c)
    \/ \E c \in CallbackIds : github_callback_save(c)
    \/ \E u \in Users : disconnect_github(u)

SpecGithub == InitGithub /\ [][NextGithub]_vars

TypeOK ==
    /\ Len(scans) <= MaxScans
    /\ \A s \in DOMAIN scans :
         /\ scans[s].status \in orm.ScanStatus
         /\ scans[s].project_id \in DOMAIN projects

\* ------------------------------------------------------------------ claims
\* vocabulary of the claims, stated apart from the code's own lists
TerminalStates == {"completed", "failed", "cancelled"}
Chain ==
    <<"pending", "cloning", "detecting", "scanning_sast", "scanning_sca",
      "scoring", "completed">>
Checkpoints == {0, 10, 20, 40, 60, 80, 100}
NonTerminalScans(p) ==
    {s \in DOMAIN scans :
        scans[s].project_id = p /\ scans[s].status \notin TerminalStates}
Returned(s) == task[s].pc \in {"done", "escaped"}
\* the exceptions the environment raises (datastore, download)
EnvironmentErrors == {"DBAPIError", "HTTPStatusError"}
IsSuccessor(a, b) ==
    \E i \in 1..(Len(Chain) - 1) : Chain[i] = a /\ Chain[i + 1] = b

C6_OneRunningScanPerProject ==
    \A p \in Projects : Cardinality(NonTerminalScans(p)) <= 1

C8_ExceptionMarksFailed ==
    \A s \in DOMAIN scans :
        (Returned(s) /\ task[s].exc # NULL)
           => /\ task[s].pc = "done"
              /\ scans[s].status = "failed"
              /\ scans[s].status_message = "exception"
              /\ scans[s].message_len <= 500

C10_CompletesNormally ==
    \A s \in DOMAIN scans :
        (Returned(s) /\ cancel[s] = NoCancel
           /\ task[s].exc \notin EnvironmentErrors)
           => scans[s].status = "completed" /\ scans[s].progress = 100

\* the number of elements of list equal to sev
Occurrences(list, sev) == Cardinality({i \in DOMAIN list : list[i] = sev})
LocationColumns == {"file_path", "line_start", "line_end"}
PackageColumns == {"package_name", "package_version"}

SixDomains ==
    {"security", "testing", "reliability", "observability", "performance",
     "infrastructure"}
StatedWeights ==
    [security |-> 25, testing |-> 20, reliability |-> 20,
     observability |-> 15, performance |-> 10, infrastructure |-> 10]
RECURSIVE SumOver(_, _)
SumOver(f, D) ==
    IF D = {} THEN 0
    ELSE LET x == CHOOSE y \in D : TRUE IN f[x] + SumOver(f, D \ {x})
\* the penalty the findings of both lists add up to, by the stated table
StatedPenalty(sast, sca) ==
    LET both == sast \o sca IN
    20 * Occurrences(both, "critical") + 10 * Occurrences(both, "high")
      + 3 * Occurrences(both, "medium") + Occurrences(both, "low")
      + 2 * Cardinality({i \in DOMAIN both :
                           both[i] \notin {"critical", "high", "medium",
                                           "low"}})
Permuted(list) ==
    {[i \in DOMAIN list |-> list[f[i]]] :
        f \in {g \in [DOMAIN list -> DOMAIN list] :
                 \A i, j \in DOMAIN list : g[i] = g[j] => i = j}}
Without(list, i) ==
    [j \in 1..(Len(list) - 1) |-> IF j < i THEN list[j] ELSE list[j + 1]]

\* C14: every domain score a method of ScoringEngine returns lies in
\* [0, 100], and calculate returns all six.
C14_DomainScoresInRange ==
    (call.fn \in {"_score_security", "calculate"} /\ call.pc = "returned")
       => /\ \A d \in DOMAIN call.domains :
               call.domains[d] >= 0 /\ call.domains[d] <= 100
          /\ call.fn = "calculate" => DOMAIN call.domains = SixDomains

\* C14 witness: six critical findings, whose penalties exceed 100, gave a
\* security score of 0.
C14_Witness ==
    /\ call.fn = "_score_security" /\ call.pc = "returned"
    /\ Len(call.sast) = 3 /\ Len(call.sca) = 3
    /\ \A i \in 1..3 : call.sast[i] = "critical" /\ call.sca[i] = "critical"
    /\ call.domains.security = 0

\* C15: the security score is max(0, 100 - penalties) with penalty 20 for
\* critical, 10 for high, 3 for medium, 1 for low and 2 for anything else;
\* permuting either list, or moving a finding from one list to the other,
\* leaves it unchanged; it is 100 when both lists are empty.
C15_SecurityScore ==
    (call.fn = "_score_security" /\ call.pc = "returned")
       => LET score == call.domains.security
              sast == call.sast
              sca == call.sca
          IN /\ score = Max(0, 100 - StatedPenalty(sast, sca))
             /\ \A p \in Permuted(sast), q \in Permuted(sca) :
                   SecurityScore(p, q) = score
             /\ \A i \in DOMAIN sast :
                   SecurityScore(Without(sast, i), Append(sca, sast[i]))
                      = score
             /\ \A i \in DOMAIN sca :
                   SecurityScore(Append(sast, sca[i]), Without(sca, i))
                      = score
             /\ (sast = <<>> /\ sca = <<>>) => score = 100

\* C15 witness: lists that hold every severity between them, in an order
\* that is not sorted, gave a score strictly between 0 and 100.
C15_Witness ==
    /\ call.fn = "_score_security" /\ call.pc = "returned"
    /\ call.sast = <<"info", "critical", "low">>
    /\ call.sca = <<"medium", "high">>
    /\ call.domains.security = 64

\* C16: overall is the sum of the six domain scores, each times its weight
\* (0.25, 0.20, 0.20, 0.15, 0.10, 0.10), rounded to one decimal: it lies
\* within half a tenth of that sum; the weights sum to 1; overall lies in
\* [0, 100].  overall is held in tenths, the weights in hundredths.
C16_OverallScore ==
    (call.fn = "calculate" /\ call.pc = "returned")
       => LET sum == SumOver([d \in SixDomains |->
                                call.domains[d] * StatedWeights[d]],
                             SixDomains)
          IN /\ 10 * call.overall - sum <= 5
             /\ sum - 10 * call.overall <= 5
             /\ SumOver(StatedWeights, SixDomains) = 100
             /\ call.overall >= 0 /\ call.overall <= 1000

\* C16 witness: with no finding at all the security score is 100 and overall
\* is 100*0.25 + testing*0.20 + ... as stated, here 25 + 10 + 12 + 7.5 + 7
\* + 4 = 65.5 for a tree with none of the features.
C16_Witness ==
    /\ call.fn = "calculate" /\ call.pc = "returned"
    /\ call.sast = <<>> /\ call.sca = <<>>
    /\ call.tree = [files |-> {}, test_files |-> 0, content |-> {}]
    /\ call.domains.security = 100
    /\ call.overall = 655

\* the confidences 0.7 and 0.3, as confidences are held
SeventyPercent == Conf(70)
ThirtyPercent == Conf(30)
\* the stacks in the order the checkers are consulted
CheckOrder == <<"nextjs", "fastapi", "django", "express">>

\* C17: detect returns the result of the first checker, in the order
\* nextjs, fastapi, django, express, whose confidence exceeds 0.7; if none
\* does, the checker of maximum confidence when that exceeds 0.3, the earlier
\* one on a tie; otherwise unknown with confidence 0.  So the stack is
\* unknown exactly when all four confidences are at most 0.3, and a returned
\* confidence is 0 or in (0.3, 1].
C17_Detect ==
    (call.fn = "detect" /\ call.pc = "returned")
       => LET c == call.checks
              r == call.result
              high == {i \in 1..4 : c[i].confidence > SeventyPercent}
              top == {i \in 1..4 :
                        \A j \in 1..4 : c[j].confidence <= c[i].confidence}
              first(S) == CHOOSE i \in S : \A j \in S : i <= j
          IN /\ \A i \in 1..4 : c[i].stack = CheckOrder[i]
             /\ high # {} => r = c[first(high)]
             /\ (high = {} /\ c[first(top)].confidence > ThirtyPercent)
                   => r = c[first(top)]
             /\ (high = {} /\ c[first(top)].confidence <= ThirtyPercent)
                   => r = [stack |-> "unknown", confidence |-> 0]
             /\ r.stack = "unknown"
                   <=> \A i \in 1..4 : c[i].confidence <= ThirtyPercent
             /\ \/ r.confidence = 0
                \/ r.confidence > ThirtyPercent /\ r.confidence <= Conf(100)

\* C17 witness: nextjs was returned at a confidence above 0.7 although the
\* fastapi checker, consulted later, had a higher one.
C17_Witness ==
    /\ call.fn = "detect" /\ call.pc = "returned"
    /\ call.result.stack = "nextjs"
    /\ call.checks[1].confidence > SeventyPercent
    /\ call.checks[2].confidence > call.checks[1].confidence

\* lookup i of a scan failed: the query raised, or the database answered
\* with a status other than 200
LookupFailed(i) ==
    LET pkg == call.packages[i]
        answer == call.osv[pkg.name]
    IN \/ answer.error
       \/ answer.status_code # 200
       \/ QueryOsv(pkg.name, pkg.version, answer).raised

\* C18: scan records every failed lookup, a query that raised or a non-200
\* answer, as one entry of errors and goes on: errors has one entry for each
\* failed lookup, packages_scanned is the number of packages collected, and
\* findings holds every vuln of every lookup that succeeded.
C18_LookupFailuresRecorded ==
    (call.fn = "scan" /\ call.pc = "returned")
       => LET pk == call.packages
              failed == {i \in DOMAIN pk : LookupFailed(i)}
          IN /\ Len(call.result.errors) = Cardinality(failed)
             /\ \A i \in failed :
                   \E e \in DOMAIN call.result.errors :
                      call.result.errors[e] = pk[i].name
             /\ call.result.packages_scanned = Len(pk)
             /\ \A i \in DOMAIN pk \ failed :
                   \A v \in DOMAIN call.osv[pk[i].name].vulns :
                      \E f \in DOMAIN call.result.findings :
                         /\ call.result.findings[f].package_name = pk[i].name
                         /\ call.result.findings[f].vulnerability_id
                               = call.osv[pk[i].name].vulns[v].id

\* C19: for a tree whose package-lock.json lists lodash alone, in its
\* packages section, its dependencies section or both, and a database that
\* reports the one advisory on it, scan returns exactly one finding, with
\* lodash, 4.17.15, fixed version 4.17.21 and CVE-2020-8203.
C19_LockfileExample ==
    (/\ call.fn = "scan" /\ call.pc = "returned"
     /\ call.tree.lock_packages \cup call.tree.lock_dependencies = {"lodash"}
     /\ call.tree.requirements = {} /\ call.tree.pyproject = {}
     /\ call.osv.lodash = Response(200, <<Vuln("lodash", <<>>)>>))
       => /\ Len(call.result.findings) = 1
          /\ call.result.findings[1].package_name = "lodash"
          /\ call.result.findings[1].package_version = "4.17.15"
          /\ call.result.findings[1].fixed_version = "4.17.21"
          /\ call.result.findings[1].cve_id = "CVE-2020-8203"

\* the versions of the "fixed" events of a vuln in iteration order over its
\* affected entries, their ranges and their events
FixedOf(events) ==
    LET fixes == SelectSeq(events, LAMBDA e : "fixed" \in DOMAIN e)
    IN [i \in DOMAIN fixes |-> fixes[i].fixed]
RECURSIVE FixedInRanges(_)
FixedInRanges(ranges) ==
    IF ranges = <<>> THEN <<>>
    ELSE FixedOf(Head(ranges).events) \o FixedInRanges(Tail(ranges))
RECURSIVE FixedInAffected(_)
FixedInAffected(affected) ==
    IF affected = <<>> THEN <<>>
    ELSE FixedInRanges(Head(affected).ranges)
            \o FixedInAffected(Tail(affected))

\* C20: the fixed_version of a finding is the first "fixed" event in
\* iteration order over the vuln's affected entries, their ranges and their
\* events, and null exactly when there is no "fixed" event.
C20_FirstFixedEvent ==
    (call.fn = "_query_osv" /\ call.pc = "returned" /\ call.findings # <<>>)
       => LET fixes == FixedInAffected(call.response.vulns[1].affected)
          IN call.findings[1].fixed_version
                = (IF fixes = <<>> THEN NULL ELSE Head(fixes))

\* C21: scan takes exit codes 0 and 1 of the engine as success and parses
\* what it wrote; for any other exit code the result has no finding and at
\* least one error, whatever the engine wrote to standard error, so a failed
\* run differs from a clean run without findings.
C21_ExitCodes ==
    (call.fn = "run_sast_scan" /\ call.pc = "returned"
       /\ call.run.kind = "exited")
       => IF call.run.returncode \in {0, 1}
          THEN \/ call.run.stdout.text = "empty" /\ call.result = SASTResult
               \/ /\ call.run.stdout.text = "not json"
                  /\ call.result.findings = <<>>
                  /\ call.result.errors # <<>>
               \/ /\ call.run.stdout.text = "json"
                  /\ Len(call.result.findings) + Len(call.result.errors)
                       = Len(call.run.stdout.results)
                           + Len(call.run.stdout.errors)
          ELSE /\ call.result.findings = <<>>
               /\ call.result.errors # <<>>

\* the messages of the two failures of a run
TimeoutMessage == "Scan timeout (exceeded 10 minutes)"
InstallHint == "Semgrep not installed"

C23_CancelScan ==
    [][\A s \in DOMAIN scans :
          cancel'[s] # cancel[s]
             => IF cancel[s].pc = "idle"
                THEN /\ scans' = scans /\ findings' = findings
                     /\ IF scans[s].status \in TerminalStates
                        THEN /\ cancel'[s].pc = "idle"
                             /\ cancel'[s].accepted = cancel[s].accepted
                        ELSE /\ cancel'[s].pc = "loaded"
                             /\ ~cancel'[s].raised
                ELSE /\ scans[s].status \notin TerminalStates
                     /\ cancel'[s].accepted
                     /\ scans' = [scans EXCEPT
                                    ![s].status = "cancelled",
                                    ![s].status_message = "Cancelled by user",
                                    ![s].message_len = 17,
                                    ![s].completed_at = TRUE]
                     /\ findings' = findings
                     /\ projects' = projects]_vars

\* what C24 calls the type, severity, category, location and package
\* identity of a Finding row
Identity(f) ==
    [finding_type |-> f.finding_type, severity |-> f.severity,
     category |-> f.category, columns |-> f.columns]
\* a fix or test is cached: the column holds text
Cached(x) == x # NULL /\ x # ""

StatedLanguages ==
    [nextjs |-> <<"javascript", "typescript">>,
     express |-> <<"javascript", "typescript">>,
     django |-> <<"python">>, fastapi |-> <<"python">>, unknown |-> <<>>]

StatedProgress ==
    [pending |-> 0, cloning |-> 10, detecting |-> 20, scanning_sast |-> 40,
     scanning_sca |-> 60, scoring |-> 80, completed |-> 100]

StatedRound(hundredths) ==
    {t \in {hundredths \div 10, hundredths \div 10 + 1} :
        10 * t - hundredths \in -5..5}

\* C29: a completed scan, written by execute_scan or by create_demo_project,
\* has an overall_score equal to the sum of the six scores of its own
\* domain_scores, weighted 0.25, 0.20, 0.20, 0.15, 0.10, 0.10 and rounded to
\* one decimal, and the latest_score of its project is that overall_score
\* when latest_scan_id names the scan.
C29_OverallFromDomainScores ==
    \A s \in DOMAIN scans :
        scans[s].status = "completed"
           => /\ DOMAIN scans[s].domain_scores = SixDomains
              /\ scans[s].overall_score \in
                    StatedRound(
                       SumOver([d \in SixDomains |->
                                  scans[s].domain_scores[d] * StatedWeights[d]],
                               SixDomains))
              /\ projects[scans[s].project_id].latest_scan_id = s
                    => projects[scans[s].project_id].latest_score
                          = scans[s].overall_score

\* a callback that got past the state check, and the states issued so far
Accepted(c) == callbacks[c].user_id # 0
Issued == 1..Len(auth_urls)
\* callback c arrives in this step
Arrives(c) == callbacks[c].pc = "none" /\ callbacks'[c].pc # "none"

\* C30: a state token issued by github_auth is accepted by github_callback
\* at most once, and the credentials a callback saves go to the user the
\* state was issued to and to nobody else; a callback carrying a state that
\* is unknown or already used is answered 400 and changes no user's
\* github_access_token or github_username; and the first callback with a
\* state removes it for good, whatever becomes of the code exchange.
C30_StateAcceptedOnce ==
    [][/\ \A c, d \in CallbackIds :
             (Accepted(c) /\ Accepted(d) /\ c # d)'
                => callbacks'[c].state # callbacks'[d].state
       /\ \A c \in CallbackIds :
             Accepted(c)' => /\ callbacks'[c].state \in Issued'
                             /\ callbacks'[c].user_id
                                   = auth_urls'[callbacks'[c].state]
       /\ \A u \in Users :
             (users'[u] # users[u] /\ users'[u].github_access_token # NULL)
                => \E c \in CallbackIds :
                      /\ callbacks[c].pc = "exchanged"
                      /\ callbacks'[c].status = 307
                      /\ auth_urls[callbacks[c].state] = u
                      /\ users'[u].github_access_token
                            = AccessTokenOf(callbacks[c].code)
                      /\ \A v \in Users \ {u} : users'[v] = users[v]
       /\ \A c \in CallbackIds :
             Arrives(c)
                => LET state == callbacks'[c].state IN
                   /\ state \notin DOMAIN _oauth_states'
                   /\ state \notin DOMAIN _oauth_states
                         => /\ callbacks'[c].pc = "done"
                            /\ callbacks'[c].status = 400
                            /\ ~Accepted(c)'
                            /\ users' = users
       /\ \A state \in Issued :
             state \notin DOMAIN _oauth_states
                => state \notin DOMAIN _oauth_states'
      ]_vars

\* the exchange of the first callback with state 1 failed and a second
\* callback with that state was turned away
C30_Witness ==
    /\ Len(auth_urls) = 2 /\ auth_urls[1] = 1 /\ auth_urls[2] = 2
    /\ callbacks[1].state = 1 /\ callbacks[1].user_id = 1
    /\ callbacks[1].pc = "done" /\ callbacks[1].status = 400
    /\ callbacks[2].state = 1 /\ callbacks[2].user_id = 0
    /\ callbacks[2].pc = "done" /\ callbacks[2].status = 400
    /\ _oauth_states = (2 :> 2)
    /\ users[1].github_access_token = NULL

====
